---------------------------- MODULE Spec2Model ----------------------------
(***************************************************************************)
(* Model of app.py: the Streamlit mental-health chatbot.                   *)
(*                                                                         *)
(* The model covers the message pipeline (preprocess, contains_crisis,     *)
(* extract_tags, pick_response, get_coping_tip and the Send handler) and   *)
(* the SQLite conversation store (init_db, save_message, get_history).     *)
(*                                                                         *)
(* Texts are TLA+ strings; the string operators below compute on them      *)
(* character by character as the Python code does.  Non-ASCII punctuation  *)
(* of the reply pools (typographic dash and apostrophe) is written with    *)
(* its ASCII equivalent, since module text is ASCII.                       *)
(*                                                                         *)
(* The VADER compound score is rounded to four decimals by the library,    *)
(* so scores are integers in units of 0.0001: 0.05 is 500, -0.85 is -8500. *)
(***************************************************************************)
EXTENDS Integers, Sequences, FiniteSets, TLC

(***************************************************************************)
(* Bounds of the model.                                                    *)
(***************************************************************************)
\* rows the shared table may hold in the store specification
MaxRows == 4
\* rows the table may hold in the single-session turn specification
MaxTurnRows == 2
\* largest explicit LIMIT tried on get_history besides the code's 500/1000
MaxLimit == 3
\* failed writes (sqlite3 exceptions) explored in one behaviour
MaxFaults == 1

(***************************************************************************)
(* Configurable constants (app.py lines 26-68).                            *)
(***************************************************************************)
CRISIS_KEYWORDS ==
    << "suicide", "kill myself", "end my life", "harm myself",
       "want to die", "i can't go on", "i cant go on" >>

\* a dict: iteration follows the declaration order, kept as a sequence
COMMON_KEYWORDS ==
    << [tag |-> "stress",    words |-> <<"stress", "stressed", "overwhelmed">>],
       [tag |-> "anxiety",   words |-> <<"anxious", "anxiety", "panic", "worry">>],
       [tag |-> "depressed", words |-> <<"depress", "sad", "unhappy", "hopeless", "down">>],
       [tag |-> "sleep",     words |-> <<"insomnia", "sleep", "tired", "sleeping">>],
       [tag |-> "exam",      words |-> <<"exam", "test", "interview", "deadline">>] >>

POSITIVE_RESPONSES ==
    << "That's wonderful to hear - keep that energy going! Anything you want to celebrate?",
       "Awesome! I'm glad things are going well. Want to share more?",
       "Great! Celebrating small wins is powerful - tell me one thing that went well today." >>

NEUTRAL_RESPONSES ==
    << "I see. Tell me a bit more about what's on your mind.",
       "Okay - would you like a breathing exercise or a quick mood check?",
       "I understand. Want to try a short grounding exercise together?" >>

NEGATIVE_RESPONSES ==
    << "I'm sorry you're feeling this way. Would you like a simple breathing exercise or a coping tip?",
       "That sounds tough. I'm here for you - do you want a grounding exercise or a small distraction?",
       "I'm listening. If you want, we can try a 1-minute breathing exercise together." >>

COPING_TIPS ==
    << "Try the 4-4-4 breathing: inhale 4s, hold 4s, exhale 4s. Do this for 1-2 minutes.",
       "Take a short walk, even 5-10 minutes. Movement can help reset your mood.",
       "Write down 3 things you did well today - little wins matter.",
       "Listen to a calming song you like for 5 minutes or try a guided breathing app." >>

CRISIS_MESSAGE ==
    "I'm really sorry you're feeling this way. If you are in immediate danger or think you might "
    \o "harm yourself, please contact your local emergency services right now. "
    \o "If you can, reach out to someone you trust or a mental health professional."

(***************************************************************************)
(* Strings, as Python's str methods and the re module treat them.          *)
(***************************************************************************)
Range(f) == { f[i] : i \in DOMAIN f }

UPPERCASE == "ABCDEFGHIJKLMNOPQRSTUVWXYZ"
LOWERCASE == "abcdefghijklmnopqrstuvwxyz"
DIGITS    == "0123456789"

CharAt(s, i) == SubSeq(s, i, i)

CharsOf(s) == { CharAt(s, i) : i \in 1..Len(s) }

\* str.isspace / the regex class \s on the characters a text can hold
IsSpace(c) == c \in {" ", "\t", "\n", "\r", "\f"}

\* the regex class \w
IsWordChar(c) == c \in (CharsOf(UPPERCASE) \cup CharsOf(LOWERCASE) \cup CharsOf(DIGITS) \cup {"_"})

LowerChar(c) ==
    IF \E i \in 1..Len(UPPERCASE) : CharAt(UPPERCASE, i) = c
    THEN CharAt(LOWERCASE, CHOOSE i \in 1..Len(UPPERCASE) : CharAt(UPPERCASE, i) = c)
    ELSE c

RECURSIVE str_lower(_)
str_lower(s) == IF s = "" THEN "" ELSE LowerChar(Head(s)) \o str_lower(Tail(s))

RECURSIVE str_lstrip(_)
str_lstrip(s) == IF s # "" /\ IsSpace(Head(s)) THEN str_lstrip(Tail(s)) ELSE s

RECURSIVE str_rstrip(_)
str_rstrip(s) ==
    IF s # "" /\ IsSpace(CharAt(s, Len(s)))
    THEN str_rstrip(SubSeq(s, 1, Len(s) - 1))
    ELSE s

str_strip(s) == str_rstrip(str_lstrip(s))

\* re.sub(r'\s+', ' ', s): every maximal run of whitespace becomes one space
RECURSIVE re_sub_spaces(_)
re_sub_spaces(s) ==
    IF s = "" THEN ""
    ELSE IF IsSpace(Head(s)) THEN " " \o re_sub_spaces(str_lstrip(s))
    ELSE Head(s) \o re_sub_spaces(Tail(s))

\* the regex assertion \b at the gap after the p-th character (p in 0..Len(t))
WordBoundary(t, p) ==
    LET before == p >= 1 /\ IsWordChar(CharAt(t, p))
        after  == p < Len(t) /\ IsWordChar(CharAt(t, p + 1))
    IN  before # after

\* Python's `w in t` on strings
StrContains(t, w) ==
    \E i \in 1..(Len(t) - Len(w) + 1) : SubSeq(t, i, i + Len(w) - 1) = w

\* re.search(rf'\b{re.escape(kw)}\b', t) is not None
re_search_word(kw, t) ==
    \E i \in 1..(Len(t) - Len(kw) + 1) :
        /\ WordBoundary(t, i - 1)
        /\ SubSeq(t, i, i + Len(kw) - 1) = kw
        /\ WordBoundary(t, i + Len(kw) - 1)

\* ', '.join(tags)
RECURSIVE str_join(_)
str_join(tags) ==
    IF tags = <<>> THEN ""
    ELSE IF Len(tags) = 1 THEN tags[1]
    ELSE tags[1] \o ", " \o str_join(Tail(tags))

(***************************************************************************)
(* Helper functions - NLP (app.py lines 73-95).                            *)
(***************************************************************************)
preprocess(text) == re_sub_spaces(str_strip(str_lower(text)))

\* variant: the keywords are searched in the raw text
contains_crisis_raw(text) ==
    \E k \in 1..Len(CRISIS_KEYWORDS) : re_search_word(CRISIS_KEYWORDS[k], text)

contains_crisis(text) ==
    LET t == preprocess(text)
    IN  \E k \in 1..Len(CRISIS_KEYWORDS) : re_search_word(CRISIS_KEYWORDS[k], t)

RECURSIVE TagsFrom(_, _)
TagsFrom(k, t) ==
    IF k > Len(COMMON_KEYWORDS) THEN <<>>
    ELSE IF \E w \in Range(COMMON_KEYWORDS[k].words) : StrContains(t, w)
         THEN <<COMMON_KEYWORDS[k].tag>> \o TagsFrom(k + 1, t)
         ELSE TagsFrom(k + 1, t)

extract_tags(text) == TagsFrom(1, preprocess(text))

\* random.choice over the pool of the bucket: the set of possible results
pick_response(sentiment) ==
    IF sentiment = "positive" THEN Range(POSITIVE_RESPONSES)
    ELSE IF sentiment = "neutral" THEN Range(NEUTRAL_RESPONSES)
    ELSE Range(NEGATIVE_RESPONSES)

get_coping_tip == Range(COPING_TIPS)


(***************************************************************************)
(* Inputs.  Texts are what a user may type into the text box; Scores are   *)
(* the compound values the VADER analyzer may return (an external          *)
(* collaborator: any value of [-1, 1] for a given text), chosen around the *)
(* thresholds of the handler.                                              *)
(***************************************************************************)
\* the browser sessions running the script against the same database file
Sessions == {1, 2}

Users == {"Guest", "Ann"}

Texts ==
    { "",
      "  \t ",
      "hello",
      "I want to  END\tmy life ",
      "suicides in the news",
      "I feel so stressed about my exam tomorrow",
      "Feeling  SAD and tired" }

Scores == { -10000, -8501, -8500, -8499, -501, -500, -499, 0, 499, 500, 501, 10000 }

\* the input sets of the store specification: one text that differs from its
\* normalized form, one score (the reply of a turn is then the crisis message)
StoreTexts == { "Feeling  SAD" }

StoreScores == { -8500 }

Limits == (0..MaxLimit) \cup {500, 1000}

\* SQL NULL / Python None in the compound column, and a present value
None == <<>>
Real(c) == <<c>>

(***************************************************************************)
(* State.                                                                  *)
(***************************************************************************)
VARIABLES
    tableExists,  \* chat_history.db holds the messages table
    messages,     \* the rows of the table, in rowid order
    seq,          \* the AUTOINCREMENT counter of the table (sqlite_sequence)
    now,          \* the UTC clock read by datetime.utcnow()
    pc,           \* per session: position of its script run
    username,     \* per session: the sidebar text input
    user_input,   \* per session: the message text input
    button,       \* per session: st.button("Send") of this run
    compound,     \* per session: the handler's local `compound`
    history,      \* per session: the list read at line 158
    error,        \* per session: an exception escaped the script run
    turns,        \* history variable: the processed submissions, in order
    cur,          \* history variable: per session, its turn in `turns`
    faults        \* history variable: number of failed writes so far

vars == << tableExists, messages, seq, now, pc, username, user_input, button,
           compound, history, error, turns, cur, faults >>

dbvars == << tableExists, messages, seq, now >>

(***************************************************************************)
(* Helper functions - Database (app.py lines 100-133).                     *)
(***************************************************************************)
Min(a, b) == IF a <= b THEN a ELSE b

\* variant: the table is dropped and created again
init_db_recreate ==
    /\ tableExists' = TRUE
    /\ messages' = <<>>
    /\ seq' = 0
    /\ now' = now

\* CREATE TABLE IF NOT EXISTS messages (...); commit
init_db ==
    /\ tableExists' = TRUE
    /\ messages' = IF tableExists THEN messages ELSE <<>>
    /\ seq' = IF tableExists THEN seq ELSE 0
    /\ now' = now

\* id INTEGER PRIMARY KEY AUTOINCREMENT: one more than the largest id ever used
NextId == seq + 1

\* datetime.utcnow(): the clock (microseconds) has advanced since the last write
utcnow == now + 1

\* INSERT INTO messages (user, role, text, compound, timestamp) VALUES (...); commit
save_message(user, role, text, cmp) ==
    /\ tableExists
    /\ messages' = Append(messages,
            [id |-> NextId, user |-> user, role |-> role, text |-> text,
             compound |-> cmp, timestamp |-> utcnow])
    /\ now' = utcnow
    /\ seq' = NextId
    /\ tableExists' = tableExists

\* sqlite3 raises (storage unavailable, locked, full): nothing is committed
save_message_raises == UNCHANGED dbvars

\* variant: no WHERE clause
WhereUser_all(user) == Range(messages)

\* WHERE user = ?
WhereUser(user) == { r \in Range(messages) : r.user = user }

\* variant: ORDER BY id
RECURSIVE OrderByIdAsc(_)
OrderByIdAsc(rows) ==
    IF rows = {} THEN <<>>
    ELSE LET r == CHOOSE q \in rows : \A p \in rows : q.id <= p.id
         IN  <<r>> \o OrderByIdAsc(rows \ {r})

\* ORDER BY id DESC
RECURSIVE OrderByIdDesc(_)
OrderByIdDesc(rows) ==
    IF rows = {} THEN <<>>
    ELSE LET r == CHOOSE q \in rows : \A p \in rows : p.id <= q.id
         IN  <<r>> \o OrderByIdDesc(rows \ {r})

\* LIMIT ?  (a negative LIMIT means no limit in SQLite)
SqlLimit(rows, limit) ==
    IF limit < 0 THEN rows ELSE SubSeq(rows, 1, Min(limit, Len(rows)))

\* the rows the SELECT of get_history matches, as fetched, before projection
SelectRows(user, limit) == SqlLimit(OrderByIdDesc(WhereUser(user)), limit)

\* SELECT role, text, compound, timestamp
Columns(r) == << r.role, r.text, r.compound, r.timestamp >>

reversed(s) == [ i \in 1..Len(s) |-> s[Len(s) + 1 - i] ]

\* variant: the fetched rows are returned as fetched, newest first
get_history_unreversed(user, limit) ==
    LET rows == SelectRows(user, limit)
    IN  [ i \in 1..Len(rows) |-> Columns(rows[i]) ]

get_history(user, limit) ==
    LET rows == SelectRows(user, limit)
    IN  reversed([ i \in 1..Len(rows) |-> Columns(rows[i]) ])

(***************************************************************************)
(* The Send handler's reply (app.py lines 174-195).                        *)
(***************************************************************************)
\* variant: strict comparisons at the thresholds
Bucket_strict(cmp) ==
    IF cmp > 500 THEN "positive"
    ELSE IF cmp < -500 THEN "negative"
    ELSE "neutral"

Bucket(cmp) ==
    IF cmp >= 500 THEN "positive"
    ELSE IF cmp <= -500 THEN "negative"
    ELSE "neutral"

IsCrisis(text, cmp) == contains_crisis(text) \/ cmp <= -8500

TagSentence(tags) ==
    " I noticed you're talking about " \o str_join(tags) \o ". Want tips related to that?"

\* variant: the tag sentence is appended to a neutral reply without testing `tags`
bot_text_untested_tags(text, cmp) ==
    IF IsCrisis(text, cmp) THEN { CRISIS_MESSAGE }
    ELSE LET sentiment == Bucket(cmp)
             tags == extract_tags(text)
         IN  IF sentiment = "negative"
             THEN { r \o " Tip: " \o tip : r \in pick_response(sentiment), tip \in get_coping_tip }
             ELSE IF sentiment = "neutral"
             THEN { r \o TagSentence(tags) : r \in pick_response(sentiment) }
             ELSE pick_response(sentiment)

\* the values bot_text may have when it is saved: one per outcome of random.choice
bot_text(text, cmp) ==
    IF IsCrisis(text, cmp) THEN { CRISIS_MESSAGE }
    ELSE LET sentiment == Bucket(cmp)
             tags == extract_tags(text)
         IN  IF sentiment = "negative"
             THEN { r \o " Tip: " \o tip : r \in pick_response(sentiment), tip \in get_coping_tip }
             ELSE IF sentiment = "neutral" /\ tags # <<>>
             THEN { r \o TagSentence(tags) : r \in pick_response(sentiment) }
             ELSE pick_response(sentiment)

(***************************************************************************)
(* Initial state: no database file yet; every session is about to run the  *)
(* script for the first time with the widgets at their defaults.           *)
(***************************************************************************)
Init ==
    /\ tableExists = FALSE
    /\ messages = <<>>
    /\ seq = 0
    /\ now = 0
    /\ pc = [s \in Sessions |-> "init_db"]
    /\ username = [s \in Sessions |-> "Guest"]
    /\ user_input = [s \in Sessions |-> ""]
    /\ button = [s \in Sessions |-> FALSE]
    /\ compound = [s \in Sessions |-> None]
    /\ history = [s \in Sessions |-> <<>>]
    /\ error = [s \in Sessions |-> FALSE]
    /\ turns = <<>>
    /\ cur = [s \in Sessions |-> 0]
    /\ faults = 0

(***************************************************************************)
(* One script run of a session, step by step.                              *)
(***************************************************************************)
\* The user edits the widgets; Streamlit runs the script again from the top.
\* (Runs are explored while the table has room for one more turn.)
Interact(s, names, texts, presses, cap) ==
    /\ pc[s] = "idle"
    /\ Len(messages) + 2 <= cap
    /\ \E name \in names, text \in texts, b \in presses :
         /\ username' = [username EXCEPT ![s] = name]
         /\ user_input' = [user_input EXCEPT ![s] = text]
         /\ button' = [button EXCEPT ![s] = b]
    /\ pc' = [pc EXCEPT ![s] = "init_db"]
    /\ error' = [error EXCEPT ![s] = FALSE]
    /\ UNCHANGED << dbvars, compound, history, turns, cur, faults >>

\* line 138
InitDb(s) ==
    /\ pc[s] = "init_db"
    /\ init_db
    /\ pc' = [pc EXCEPT ![s] = "history"]
    /\ UNCHANGED << username, user_input, button, compound, history, error,
                    turns, cur, faults >>

\* lines 158-163
ShowHistory(s) ==
    /\ pc[s] = "history"
    /\ history' = [history EXCEPT ![s] = get_history(username[s], 500)]
    /\ pc' = [pc EXCEPT ![s] = "send"]
    /\ UNCHANGED << dbvars, username, user_input, button, compound, error,
                    turns, cur, faults >>

\* variant: the handler runs on the button alone
Submitted_button_only(s) == button[s]

Submitted(s) == button[s] /\ user_input[s] # ""

NewTurn(s, cmp, uid) ==
    [sess |-> s, user |-> username[s], text |-> user_input[s], compound |-> cmp,
     userId |-> uid, botId |-> 0, reply |-> ""]

PendingReplies == Cardinality({ s \in Sessions : pc[s] = "reply" })

\* variant: the normalized text is stored in place of the original
SendUser_normalized(s, scores, cap) ==
    /\ pc[s] = "send"
    /\ Submitted(s)
    /\ Len(messages) + PendingReplies + 2 <= cap
    /\ \E c \in scores :
         /\ compound' = [compound EXCEPT ![s] = Real(c)]
         /\ save_message(username[s], "user", preprocess(user_input[s]), Real(c))
         /\ turns' = Append(turns, NewTurn(s, c, NextId))
    /\ cur' = [cur EXCEPT ![s] = Len(turns) + 1]
    /\ pc' = [pc EXCEPT ![s] = "reply"]
    /\ UNCHANGED << username, user_input, button, history, error, faults >>

\* lines 169-172: the submission is scored and the user row written
SendUser(s, scores, cap) ==
    /\ pc[s] = "send"
    /\ Submitted(s)
    /\ Len(messages) + PendingReplies + 2 <= cap
    /\ \E c \in scores :
         /\ compound' = [compound EXCEPT ![s] = Real(c)]
         /\ save_message(username[s], "user", user_input[s], Real(c))
         /\ turns' = Append(turns, NewTurn(s, c, NextId))
    /\ cur' = [cur EXCEPT ![s] = Len(turns) + 1]
    /\ pc' = [pc EXCEPT ![s] = "reply"]
    /\ UNCHANGED << username, user_input, button, history, error, faults >>

\* variant: the exception of line 172 is caught and the handler goes on
SendUserFail_swallowed(s, scores) ==
    /\ pc[s] = "send"
    /\ Submitted(s)
    /\ faults < MaxFaults
    /\ \E c \in scores :
         /\ compound' = [compound EXCEPT ![s] = Real(c)]
         /\ turns' = Append(turns, NewTurn(s, c, 0))
    /\ save_message_raises
    /\ cur' = [cur EXCEPT ![s] = Len(turns) + 1]
    /\ pc' = [pc EXCEPT ![s] = "reply"]
    /\ faults' = faults + 1
    /\ UNCHANGED << username, user_input, button, history, error >>

\* line 172 raises: the exception leaves the script run
SendUserFail(s, scores) ==
    /\ pc[s] = "send"
    /\ Submitted(s)
    /\ faults < MaxFaults
    /\ \E c \in scores : turns' = Append(turns, NewTurn(s, c, 0))
    /\ save_message_raises
    /\ error' = [error EXCEPT ![s] = TRUE]
    /\ pc' = [pc EXCEPT ![s] = "idle"]
    /\ history' = [history EXCEPT ![s] = <<>>]
    /\ faults' = faults + 1
    /\ UNCHANGED << username, user_input, button, compound, cur >>

\* line 169 with the button not pressed or an empty text: the handler is skipped
SendSkip(s) ==
    /\ pc[s] = "send"
    /\ ~Submitted(s)
    /\ pc' = [pc EXCEPT ![s] = "charts"]
    /\ UNCHANGED << dbvars, username, user_input, button, compound, history,
                    error, turns, cur, faults >>

\* lines 174-198: the reply is chosen and written, then st.rerun()
Reply(s) ==
    /\ pc[s] = "reply"
    /\ \E bt \in bot_text(user_input[s], compound[s][1]) :
         /\ save_message(username[s], "bot", bt, None)
         /\ turns' = [turns EXCEPT ![cur[s]].botId = NextId, ![cur[s]].reply = bt]
    /\ button' = [button EXCEPT ![s] = FALSE]
    /\ pc' = [pc EXCEPT ![s] = "init_db"]
    /\ compound' = [compound EXCEPT ![s] = None]
    /\ history' = [history EXCEPT ![s] = <<>>]
    /\ cur' = [cur EXCEPT ![s] = 0]
    /\ UNCHANGED << username, user_input, error, faults >>

\* line 176 or 195 raises: the exception leaves the script run
ReplyFail(s) ==
    /\ pc[s] = "reply"
    /\ faults < MaxFaults
    /\ save_message_raises
    /\ error' = [error EXCEPT ![s] = TRUE]
    /\ pc' = [pc EXCEPT ![s] = "idle"]
    /\ compound' = [compound EXCEPT ![s] = None]
    /\ history' = [history EXCEPT ![s] = <<>>]
    /\ cur' = [cur EXCEPT ![s] = 0]
    /\ faults' = faults + 1
    /\ UNCHANGED << username, user_input, button, turns >>

\* lines 203-229: the mood chart and the raw history only read the store
Charts(s) ==
    /\ pc[s] = "charts"
    /\ pc' = [pc EXCEPT ![s] = "idle"]
    /\ history' = [history EXCEPT ![s] = <<>>]
    /\ UNCHANGED << dbvars, username, user_input, button, compound,
                    error, turns, cur, faults >>

(***************************************************************************)
(* Specifications.                                                         *)
(***************************************************************************)
\* session 1 keeps the default name, session 2 may type any name
NamesOf(s) == IF s = 1 THEN {"Guest"} ELSE Users

\* several sessions share the store
Next ==
    \E s \in Sessions :
        \/ Interact(s, NamesOf(s), StoreTexts, {TRUE}, MaxRows)
        \/ InitDb(s)
        \/ ShowHistory(s)
        \/ SendUser(s, StoreScores, MaxRows)
        \/ SendUserFail(s, StoreScores)
        \/ SendSkip(s)
        \/ Reply(s)
        \/ ReplyFail(s)
        \/ Charts(s)

Spec == Init /\ [][Next]_vars

\* one session, every text and score
NextTurn ==
    \/ Interact(1, Users, Texts, BOOLEAN, MaxTurnRows)
    \/ InitDb(1)
    \/ ShowHistory(1)
    \/ SendUser(1, Scores, MaxTurnRows)
    \/ SendSkip(1)
    \/ Reply(1)
    \/ Charts(1)

SpecTurn == Init /\ [][NextTurn]_vars


(***************************************************************************)
(* Vocabulary of the properties.                                           *)
(***************************************************************************)
RowById(id) == CHOOSE r \in Range(messages) : r.id = id

PosOf(id) == CHOOSE i \in 1..Len(messages) : messages[i].id = id

\* the turns whose reply row has been written
DoneTurns == { k \in 1..Len(turns) : turns[k].botId # 0 }

UserRowOf(k) == RowById(turns[k].userId)

BotRowOf(k) == RowById(turns[k].botId)

\* kw occurs in t delimited on both sides by a non-word character or an end of t
ContainsWholePhrase(t, kw) ==
    \E i \in 1..(Len(t) - Len(kw) + 1) :
        LET j == i + Len(kw) - 1
        IN  /\ SubSeq(t, i, j) = kw
            /\ (i = 1 \/ ~IsWordChar(CharAt(t, i - 1)))
            /\ (j = Len(t) \/ ~IsWordChar(CharAt(t, j + 1)))

HasCrisisPhrase(text) ==
    \E kw \in Range(CRISIS_KEYWORDS) : ContainsWholePhrase(preprocess(text), kw)

CrisisCase(text, cmp) == HasCrisisPhrase(text) \/ cmp <= -8500

StartsWith(str, prefix) ==
    Len(str) >= Len(prefix) /\ SubSeq(str, 1, Len(prefix)) = prefix

FromPool(str, pool) == \E r \in Range(pool) : StartsWith(str, r)

AllTemplates ==
    Range(POSITIVE_RESPONSES) \cup Range(NEUTRAL_RESPONSES) \cup Range(NEGATIVE_RESPONSES)

\* the rows of one user in insertion order
UserLog(u) == LET OfUser(r) == r.user = u IN SelectSeq(messages, OfUser)

LastN(rows, n) == SubSeq(rows, Len(rows) - n + 1, Len(rows))

\* a user that never writes
QueryUsers == Users \cup {"Nobody"}

(***************************************************************************)
(* C1: whenever the normalized text of a processed submission contains a   *)
(* crisis phrase as a whole word/phrase, or its compound score is at most  *)
(* -0.85, the bot row stored for that turn is exactly the crisis message.  *)
(***************************************************************************)
C1CrisisOverride ==
    \A k \in DoneTurns :
        CrisisCase(UserRowOf(k).text, UserRowOf(k).compound[1])
            => BotRowOf(k).text = CRISIS_MESSAGE

\* a crisis phrase in mixed case and irregular spacing, scored fully positive
C1Witness ==
    \E k \in DoneTurns :
        /\ UserRowOf(k).text = "I want to  END\tmy life "
        /\ UserRowOf(k).compound = Real(10000)
        /\ BotRowOf(k).text = CRISIS_MESSAGE

(***************************************************************************)
(* C2: for every non-crisis turn the reply starts with a template of the   *)
(* positive pool iff score >= 0.05, of the negative pool iff score <=      *)
(* -0.05, and of the neutral pool otherwise.                               *)
(***************************************************************************)
C2BucketBoundaries ==
    \A k \in DoneTurns :
        LET c == UserRowOf(k).compound[1]
            reply == BotRowOf(k).text
        IN  ~CrisisCase(UserRowOf(k).text, c) =>
              /\ FromPool(reply, POSITIVE_RESPONSES) <=> (c >= 500)
              /\ FromPool(reply, NEGATIVE_RESPONSES) <=> (c <= -500)
              /\ FromPool(reply, NEUTRAL_RESPONSES) <=> (c > -500 /\ c < 500)

\* the boundary 0.05 itself answered from the positive pool
C2Witness ==
    \E k \in DoneTurns :
        /\ UserRowOf(k).compound = Real(500)
        /\ ~HasCrisisPhrase(UserRowOf(k).text)
        /\ BotRowOf(k).text \in Range(POSITIVE_RESPONSES)

(***************************************************************************)
(* C8: a non-crisis reply is one template followed by a coping tip iff the *)
(* bucket is negative, by the sentence listing the matched tags in         *)
(* declaration order iff the bucket is neutral and a tag matched, and by   *)
(* nothing otherwise.                                                      *)
(***************************************************************************)
DeclaredTags == << "stress", "anxiety", "depressed", "sleep", "exam" >>

TagMatches(tag, text) ==
    \E e \in Range(COMMON_KEYWORDS) :
        e.tag = tag /\ \E w \in Range(e.words) : StrContains(preprocess(text), w)

MatchedTags(text) ==
    LET Hit(tag) == TagMatches(tag, text) IN SelectSeq(DeclaredTags, Hit)

ExpectedSuffixes(text, c) ==
    IF c <= -500 THEN { " Tip: " \o tip : tip \in Range(COPING_TIPS) }
    ELSE IF c < 500 /\ MatchedTags(text) # <<>>
    THEN { " I noticed you're talking about " \o str_join(MatchedTags(text))
             \o ". Want tips related to that?" }
    ELSE { "" }

C8ReplySuffix ==
    \A k \in DoneTurns :
        LET text == UserRowOf(k).text
            c == UserRowOf(k).compound[1]
        IN  ~CrisisCase(text, c) =>
              \E r \in AllTemplates, sfx \in ExpectedSuffixes(text, c) :
                  BotRowOf(k).text = r \o sfx

\* a neutral reply naming two tags in declaration order
C8Witness ==
    \E k \in DoneTurns :
        /\ UserRowOf(k).text = "I feel so stressed about my exam tomorrow"
        /\ UserRowOf(k).compound = Real(0)
        /\ \E r \in Range(NEUTRAL_RESPONSES) :
             BotRowOf(k).text =
                 r \o " I noticed you're talking about stress, exam. Want tips related to that?"

C3HistoryMostRecent ==
    /\ \A u \in QueryUsers, l \in Limits :
         LET log == UserLog(u)
             recent == LastN(log, Min(l, Len(log)))
         IN  get_history(u, l) =
                 [ i \in 1..Len(recent) |->
                     << recent[i].role, recent[i].text, recent[i].compound, recent[i].timestamp >> ]
    /\ messages # <<>> =>
         LET last == messages[Len(messages)]
         IN  get_history(last.user, 1) =
                 << << last.role, last.text, last.compound, last.timestamp >> >>

\* a session has read a history of two rows or more, and a limit truncates a log
C3Witness ==
    /\ \E s \in Sessions : Len(history[s]) >= 2 /\ history[s] = get_history(username[s], 500)
    /\ \E u \in Users, l \in 1..MaxLimit :
         Len(UserLog(u)) > l /\ Len(get_history(u, l)) = l
    /\ \A u \in Users : UserLog(u) # <<>>

(***************************************************************************)
(* C4: the rows history(u, limit) is built from all belong to u, whatever  *)
(* the interleaving of appends; a user without rows gets the empty list.   *)
(***************************************************************************)
C4UserIsolation ==
    \A u \in QueryUsers, l \in Limits :
        /\ \A r \in Range(SelectRows(u, l)) : r.user = u
        /\ Len(get_history(u, l)) = Len(SelectRows(u, l))
        /\ (\A i \in 1..Len(messages) : messages[i].user # u) => get_history(u, l) = <<>>

\* appends of two users interleaved, and read back
C4Witness ==
    /\ \E i, j, k \in 1..Len(messages) :
         /\ i < j /\ j < k
         /\ messages[i].user = messages[k].user
         /\ messages[j].user # messages[i].user
    /\ \E s \in Sessions : history[s] # <<>>
    /\ get_history("Nobody", 500) = <<>>

(***************************************************************************)
(* C5: every step keeps all rows written so far, unchanged and in order;   *)
(* running init_db again changes nothing.                                  *)
(***************************************************************************)
C5AppendOnly ==
    [][ /\ Len(messages') >= Len(messages)
        /\ \A i \in 1..Len(messages) : messages'[i] = messages[i]
        /\ \A s \in Sessions :
             (pc[s] = "init_db" /\ pc'[s] = "history") => messages' = messages ]_vars

\* a session ran init_db again after it had written a complete turn
C5Witness ==
    \E s \in Sessions :
        /\ pc[s] = "history"
        /\ Len(messages) >= 2
        /\ \E k \in DoneTurns : turns[k].sess = s

(***************************************************************************)
(* C6: a processed submission writes a user row with the original text and *)
(* the score, then a bot row with the reply and no score, both for the     *)
(* submitting user and nothing else; the log of a user served by a single  *)
(* session alternates user, bot whenever none of its turns is unfinished.  *)
(***************************************************************************)
TurnsOf(u) == { k \in 1..Len(turns) : turns[k].user = u }

Alternates(log) ==
    \A i \in 1..Len(log) : log[i].role = IF i % 2 = 1 THEN "user" ELSE "bot"

C7TurnOrder ==
    \A k \in DoneTurns :
        LET t == turns[k]
            h == get_history(t.user, 1000)
        IN  /\ t.userId # 0
            /\ PosOf(t.userId) < PosOf(t.botId)
            /\ \E i, j \in 1..Len(h) :
                 /\ i < j
                 /\ h[i] = Columns(UserRowOf(k))
                 /\ h[j] = Columns(BotRowOf(k))

\* two sessions' turns for the same user, their writes interleaved
C7Witness ==
    \E k1, k2 \in DoneTurns :
        /\ turns[k1].sess # turns[k2].sess
        /\ turns[k1].user = turns[k2].user
        /\ PosOf(turns[k1].userId) < PosOf(turns[k2].userId)
        /\ PosOf(turns[k2].userId) < PosOf(turns[k1].botId)
        /\ PosOf(turns[k1].botId) < PosOf(turns[k2].botId)

(***************************************************************************)
(* C10: a write that fails leaves the log unchanged and ends the script    *)
(* run with the error raised; the turn writes nothing afterwards, so a     *)
(* turn whose user row failed never gets a bot row.                        *)
(***************************************************************************)
C10WriteFailureFatal ==
    [][ /\ \A s \in Sessions :
             ( /\ \/ pc[s] = "send" /\ Submitted(s)
                  \/ pc[s] = "reply"
               /\ pc'[s] # pc[s]
               /\ Len(messages') = Len(messages) )
             => /\ error'[s]
                /\ pc'[s] = "idle"
                /\ messages' = messages
        /\ \A s \in Sessions : error'[s] => pc'[s] = "idle"
        /\ \A k \in 1..Len(turns') : turns'[k].userId = 0 => turns'[k].botId = 0 ]_vars

\* the user-row write of a turn failed; the session shows the error
C10Witness ==
    \E s \in Sessions :
        /\ error[s]
        /\ pc[s] = "idle"
        /\ \E k \in 1..Len(turns) :
             turns[k].sess = s /\ turns[k].userId = 0 /\ turns[k].botId = 0

=============================================================================
